---- MODULE Spec2Model ----
(***************************************************************************)
(* Model of the dialogue-management core of the voice booking assistant:   *)
(*   utils/booking_state_machine.py  BookingState, DialogueEngine          *)
(*   utils/llm_parser.py             prompt/decoding/classifier helpers    *)
(*   utils/hybrid_handler.py         HybridBookingHandler                  *)
(* and of the socket application around it:                                *)
(*   app.py                          handle_audio_data and its helpers     *)
(*   utils/llm.py                    get_llm_response                      *)
(*   utils/booking_state.py          the session store                     *)
(*                                                                         *)
(* Python values are records [t, s, n]: t is the Python type, s the text   *)
(* of a str (a sequence of fragments: single characters for user and       *)
(* parser strings, whole phrases for the canned texts), n the number of an *)
(* int, the tenths of a float, 0/1 of a bool, the length of a list.        *)
(***************************************************************************)
EXTENDS Integers, Sequences, FiniteSets, TLC

VARIABLES state, conversation_history, ops, last,
          emitted, latency_records, llm_calls, request, served,
          sessions, heap, threads

\* The handler and its engine; the socket application; the session store
handlerVars == <<state, conversation_history, ops, last>>
appVars == <<emitted, latency_records, llm_calls, request, served>>
storeVars == <<sessions, heap, threads>>
vars == <<handlerVars, appVars, storeVars>>

----------------------------------------------------------------------------
(* Python values *)

PyNull == [t |-> "null", s |-> <<>>, n |-> 0]
PyStr(chars) == [t |-> "str", s |-> chars, n |-> 0]
PyInt(k) == [t |-> "int", s |-> <<>>, n |-> k]
PyFloat(tenths) == [t |-> "float", s |-> <<>>, n |-> tenths]
PyBool(b) == [t |-> "bool", s |-> <<>>, n |-> IF b THEN 1 ELSE 0]
PyList(len) == [t |-> "list", s |-> <<>>, n |-> len]

\* bool(v), as used by `if v:` and all([...])
Truthy(v) ==
    CASE v.t = "null" -> FALSE
      [] v.t = "str" -> Len(v.s) > 0
      [] OTHER -> v.n # 0

----------------------------------------------------------------------------
(* str methods, on sequences of single characters *)

UpperChars == <<"A","B","C","D","E","F","G","H","I","J","K","L","M",
                "N","O","P","Q","R","S","T","U","V","W","X","Y","Z">>
LowerChars == <<"a","b","c","d","e","f","g","h","i","j","k","l","m",
                "n","o","p","q","r","s","t","u","v","w","x","y","z">>
Digits == <<"0","1","2","3","4","5","6","7","8","9">>
Whitespace == {" ", "\t", "\n"}

Range(seq) == {seq[i] : i \in DOMAIN seq}
IndexOf(seq, c) == CHOOSE i \in DOMAIN seq : seq[i] = c

LowerChar(c) == IF c \in Range(UpperChars) THEN LowerChars[IndexOf(UpperChars, c)] ELSE c
UpperChar(c) == IF c \in Range(LowerChars) THEN UpperChars[IndexOf(LowerChars, c)] ELSE c
IsLetter(c) == c \in Range(UpperChars) \cup Range(LowerChars)

\* str.lower(), str.upper()
Lower(str) == [i \in DOMAIN str |-> LowerChar(str[i])]
Upper(str) == [i \in DOMAIN str |-> UpperChar(str[i])]

\* str.replace(c, "") for a one-character c
RECURSIVE RemoveChar(_, _)
RemoveChar(str, c) ==
    IF str = <<>> THEN <<>>
    ELSE IF Head(str) = c THEN RemoveChar(Tail(str), c)
    ELSE <<Head(str)>> \o RemoveChar(Tail(str), c)

\* str.startswith(prefix)
StartsWith(str, prefix) ==
    /\ Len(prefix) <= Len(str)
    /\ SubSeq(str, 1, Len(prefix)) = prefix

\* str.find(sub): the 0-based index of the first occurrence, -1 when absent
Find(str, sub) ==
    LET hits == {i \in 0..(Len(str) - Len(sub)) : SubSeq(str, i + 1, i + Len(sub)) = sub}
    IN  IF hits = {} THEN -1 ELSE CHOOSE i \in hits : \A j \in hits : i <= j

\* sub in str
Contains(str, sub) == Find(str, sub) # -1

\* str.replace(sub, ""), every non-overlapping occurrence, left to right
RECURSIVE RemoveSub(_, _)
RemoveSub(str, sub) ==
    IF Len(sub) = 0 \/ Len(str) < Len(sub) THEN str
    ELSE IF StartsWith(str, sub) THEN RemoveSub(SubSeq(str, Len(sub) + 1, Len(str)), sub)
    ELSE <<Head(str)>> \o RemoveSub(Tail(str), sub)

\* str.lstrip(chars), str.rstrip(chars), str.strip(chars)
RECURSIVE LStripSet(_, _)
LStripSet(str, chars) ==
    IF str # <<>> /\ Head(str) \in chars THEN LStripSet(Tail(str), chars) ELSE str
RECURSIVE RStripSet(_, _)
RStripSet(str, chars) ==
    IF str # <<>> /\ str[Len(str)] \in chars
    THEN RStripSet(SubSeq(str, 1, Len(str) - 1), chars) ELSE str
StripSet(str, chars) == RStripSet(LStripSet(str, chars), chars)
\* str.strip()
Strip(str) == StripSet(str, Whitespace)

\* str.split(): the words between runs of whitespace
RECURSIVE SplitFrom(_, _)
SplitFrom(str, word) ==
    IF str = <<>> THEN (IF word = <<>> THEN <<>> ELSE <<word>>)
    ELSE IF Head(str) \in Whitespace
         THEN (IF word = <<>> THEN <<>> ELSE <<word>>) \o SplitFrom(Tail(str), <<>>)
         ELSE SplitFrom(Tail(str), Append(word, Head(str)))
Split(str) == SplitFrom(str, <<>>)

\* str.title(): a letter that follows a non-letter is upper-cased, any other lower-cased
Title(str) ==
    [i \in DOMAIN str |->
        IF i = 1 \/ ~IsLetter(str[i - 1]) THEN UpperChar(str[i]) ELSE LowerChar(str[i])]

----------------------------------------------------------------------------
(* utils/booking_state_machine.py *)

\* class BookingField: the six fields in declaration (iteration) order
BookingField == <<"name", "car_reg", "car_model", "mileage", "warranty", "issue">>
FieldNames == Range(BookingField)

\* BookingState(): every field None
BookingState == [f \in FieldNames |-> PyNull]

\* Mutant of is_complete: all([...]) over the truthiness of all six fields, so
\* that a mileage of 0 or a warranty of False counts as missing
is_complete_truthy(st) == \A f \in FieldNames : Truthy(st[f])

\* BookingState.is_complete: all([...]) over truthiness of the four text fields
\* and `is not None` of mileage and warranty
is_complete(st) ==
    /\ Truthy(st["name"])
    /\ Truthy(st["car_reg"])
    /\ Truthy(st["car_model"])
    /\ st["mileage"] # PyNull
    /\ st["warranty"] # PyNull
    /\ Truthy(st["issue"])

\* Mutant of get_missing_fields: the missing fields in reverse order
get_missing_fields_reversed(st) ==
    SelectSeq(<<"issue", "warranty", "mileage", "car_model", "car_reg", "name">>,
              LAMBDA f : st[f] = PyNull)

\* BookingState.get_missing_fields: the fields that are None, in BookingField order
get_missing_fields(st) ==
    SelectSeq(BookingField, LAMBDA f : st[f] = PyNull)

\* QUESTIONS, COMPLETION_MESSAGE, GREETING_MESSAGE (texts as phrase fragments)
QUESTIONS ==
    [f \in FieldNames |->
        CASE f = "name" -> PyStr(<<"What's your full name?">>)
          [] f = "car_reg" -> PyStr(<<"What's your car registration number?">>)
          [] f = "car_model" -> PyStr(<<"What's the make and model of your car?">>)
          [] f = "mileage" -> PyStr(<<"What's the current mileage on your vehicle?">>)
          [] f = "warranty" ->
               PyStr(<<"Is your car currently under warranty or a service contract?">>)
          [] f = "issue" -> PyStr(<<"What service or issue can we help you with today?">>)]
COMPLETION_MESSAGE ==
    PyStr(<<"Perfect! I have all your details. ",
            "Let me check our available dates for you.">>)
GREETING_MESSAGE ==
    PyStr(<<"Hi! I'm here to help you book a garage appointment. ",
            "What's your full name?">>)

\* f"{missing_field.value}.wav"
WavName(f) == PyStr(<<f, ".wav">>)

\* The result of a call that may raise: ok = FALSE is the raised exception
Ok(v) == [ok |-> TRUE, v |-> v]
Raised == [ok |-> FALSE, v |-> PyNull]

\* DialogueEngine._normalize_car_reg: reg.replace(" ", "").upper();
\* a value without .replace (anything but a str) raises AttributeError
_normalize_car_reg(reg) ==
    IF reg.t = "str" THEN Ok(PyStr(Upper(RemoveChar(reg.s, " ")))) ELSE Raised

\* int(digits) of a non-empty sequence of decimal digits
RECURSIVE DigitsValue(_)
DigitsValue(ds) ==
    IF ds = <<>> THEN 0
    ELSE 10 * DigitsValue(SubSeq(ds, 1, Len(ds) - 1)) + (IndexOf(Digits, ds[Len(ds)]) - 1)

RECURSIVE Pow10(_)
Pow10(k) == IF k = 0 THEN 1 ELSE 10 * Pow10(k - 1)

AllDigits(ds) == \A i \in DOMAIN ds : ds[i] \in Range(Digits)

\* float(text) for the decimal literals  [ws] [+|-] digits [. digits] [ws]  and
\* [ws] [+|-] . digits [ws]; any other text raises ValueError. Decimal gives the
\* exact rational num / den the literal denotes, which Float64 below rounds (no
\* exponent, inf, nan or digit-group underscore appears in the inputs of this
\* model).
Decimal(ip, fp) ==
    IF AllDigits(ip) /\ AllDigits(fp) /\ Len(ip) + Len(fp) > 0
    THEN [ok |-> TRUE, num |-> DigitsValue(ip \o fp), den |-> Pow10(Len(fp))]
    ELSE [ok |-> FALSE, num |-> 0, den |-> 1]
SplitAtDot(mag, dot) ==
    IF dot = -1 THEN Decimal(mag, <<>>)
    ELSE Decimal(SubSeq(mag, 1, dot), SubSeq(mag, dot + 2, Len(mag)))
Unsigned(mag) == SplitAtDot(mag, Find(mag, <<".">>))
Negated(r) == [r EXCEPT !.num = 0 - r.num]
Signed(body) ==
    IF body # <<>> /\ Head(body) = "-" THEN Negated(Unsigned(Tail(body)))
    ELSE IF body # <<>> /\ Head(body) = "+" THEN Unsigned(Tail(body))
    ELSE Unsigned(body)
ParseFloat(text) == Signed(Strip(text))

\* Natural numbers of any width as sequences of 14-bit limbs, least
\* significant first
RECURSIVE Limbs(_)
Limbs(n) == IF n = 0 THEN <<>> ELSE <<n % 16384>> \o Limbs(n \div 16384)
RECURSIVE LimbsValue(_)
LimbsValue(b) == IF b = <<>> THEN 0 ELSE Head(b) + 16384 * LimbsValue(Tail(b))
RECURSIVE Trim(_)
Trim(b) == IF b # <<>> /\ b[Len(b)] = 0 THEN Trim(SubSeq(b, 1, Len(b) - 1)) ELSE b
RECURSIVE Incr(_)
Incr(b) ==
    IF b = <<>> THEN <<1>>
    ELSE IF Head(b) < 16383 THEN <<Head(b) + 1>> \o Tail(b) ELSE <<0>> \o Incr(Tail(b))
RECURSIVE Pow2(_)
Pow2(k) == IF k = 0 THEN 1 ELSE 2 * Pow2(k - 1)
RECURSIVE BitLenSmall(_)
BitLenSmall(n) == IF n = 0 THEN 0 ELSE 1 + BitLenSmall(n \div 2)
BitLen(b) == IF b = <<>> THEN 0 ELSE 14 * (Len(b) - 1) + BitLenSmall(b[Len(b)])
\* b * c for a c of at most 14 bits
RECURSIVE TimesCarry(_, _, _)
TimesCarry(b, c, carry) ==
    IF b = <<>> THEN Limbs(carry)
    ELSE <<(Head(b) * c + carry) % 16384>>
             \o TimesCarry(Tail(b), c, (Head(b) * c + carry) \div 16384)
Times(b, c) == TimesCarry(b, c, 0)
RECURSIVE TimesPow2(_, _)
TimesPow2(b, k) ==
    IF k >= 14 THEN TimesPow2(<<0>> \o b, k - 14) ELSE Trim(Times(b, Pow2(k)))
\* b divided by a c of at most 14 bits, from limb i down: quotient and remainder
RECURSIVE DivFrom(_, _, _, _, _)
DivFrom(b, c, i, r, q) ==
    IF i = 0 THEN [q |-> Trim(q), r |-> r]
    ELSE DivFrom(b, c, i - 1, (r * 16384 + b[i]) % c, <<(r * 16384 + b[i]) \div c>> \o q)
Div(b, c) == DivFrom(b, c, Len(b), 0, <<>>)
\* floor(b / 2^k)
RECURSIVE DivPow2(_, _)
DivPow2(b, k) ==
    IF b = <<>> THEN <<>>
    ELSE IF k >= 14 THEN DivPow2(Tail(b), k - 14) ELSE Div(b, Pow2(k)).q
\* The quotient q, remainder r of a division by c, rounded to nearest, ties to even
RoundHalfEven(dv, c) ==
    IF 2 * dv.r > c \/ (2 * dv.r = c /\ dv.q # <<>> /\ dv.q[1] % 2 = 1)
    THEN Incr(dv.q) ELSE dv.q

\* floor(log2(num / den)) of a positive fraction
RECURSIVE Log2Up(_, _, _)
Log2Up(num, den, e) == IF 2 * den <= num THEN Log2Up(num, 2 * den, e + 1) ELSE e
RECURSIVE Log2Down(_, _, _)
Log2Down(num, den, e) == IF num < den THEN Log2Down(2 * num, den, e - 1) ELSE e
Log2Floor(num, den) ==
    IF num >= den THEN Log2Up(num, den, 0) ELSE Log2Down(num, den, 0)

\* A non-negative binary64 number m * 2^e with m < 2^53 (or m = 2^53)
\* float() of the decimal num / den: round(num * 2^k / den) * 2^-k, where k
\* leaves 53 bits
Scaled64(num, den, k) ==
    [m |-> RoundHalfEven(Div(TimesPow2(Limbs(num), k), den), den), e |-> 0 - k]
Float64(num, den) ==
    IF num = 0 THEN [m |-> <<>>, e |-> 0]
    ELSE Scaled64(num, den, 52 - Log2Floor(num, den))
\* p * 2^e rounded to 53 bits
Round53(p, e) ==
    IF BitLen(p) <= 53 THEN [m |-> p, e |-> e]
    ELSE [m |-> RoundHalfEven(Div(p, Pow2(BitLen(p) - 53)), Pow2(BitLen(p) - 53)),
          e |-> e + BitLen(p) - 53]
\* x * c in binary64
Mul64(x, c) == Round53(Trim(Times(x.m, c)), x.e)
\* int(x) of a non-negative binary64 number
Int64(x) ==
    IF x.e >= 0 THEN LimbsValue(TimesPow2(x.m, x.e))
    ELSE LimbsValue(DivPow2(x.m, 0 - x.e))

\* int(float of num / den): truncation toward zero
Trunc(num, den) ==
    IF num >= 0 THEN Int64(Float64(num, den)) ELSE 0 - Int64(Float64(0 - num, den))
\* int(float of num / den * scale)
TruncTimes(num, den, scale) ==
    IF num >= 0 THEN Int64(Mul64(Float64(num, den), scale))
    ELSE 0 - Int64(Mul64(Float64(0 - num, den), scale))

\* int(num * 1000) or int(num) of a parsed float, ValueError when the text was
\* no number
IntOf(num, scale) ==
    IF ~num.ok THEN Raised
    ELSE IF scale = 1 THEN Ok(PyInt(Trunc(num.num, num.den)))
    ELSE Ok(PyInt(TruncTimes(num.num, num.den, scale)))

\* The str branch of _normalize_mileage, m the lowered text without "miles",
\* commas and surrounding whitespace
MileageOfText(m) ==
    IF Contains(m, <<"k">>) THEN IntOf(ParseFloat(RemoveChar(m, "k")), 1000)
    ELSE IntOf(ParseFloat(m), 1)

\* DialogueEngine._normalize_mileage
_normalize_mileage(mileage) ==
    CASE mileage.t \in {"int", "bool"} -> Ok(mileage)       \* isinstance(x, int)
      [] mileage.t = "str" ->
           MileageOfText(Strip(RemoveChar(RemoveSub(Lower(mileage.s),
                                                    <<"m","i","l","e","s">>), ",")))
      [] mileage.t = "float" -> Ok(PyInt(Trunc(mileage.n, 10)))  \* int(float)
      [] OTHER -> Raised                                     \* int(list): TypeError

WarrantyYes == {<<"y","e","s">>, <<"y">>, <<"t","r","u","e">>,
                <<"u","n","d","e","r"," ","w","a","r","r","a","n","t","y">>,
                <<"a","c","t","i","v","e">>}
WarrantyNo == {<<"n","o">>, <<"n">>, <<"f","a","l","s","e">>,
               <<"n","o","t"," ","u","n","d","e","r"," ","w","a","r","r","a","n","t","y">>,
               <<"e","x","p","i","r","e","d">>}

\* Mutant of _normalize_warranty: the text is compared without lower()
_normalize_warranty_cased(warranty) ==
    IF warranty.t = "bool" THEN warranty
    ELSE IF warranty.t = "str" /\ warranty.s \in WarrantyYes THEN PyBool(TRUE)
    ELSE IF warranty.t = "str" /\ warranty.s \in WarrantyNo THEN PyBool(FALSE)
    ELSE PyBool(Truthy(warranty))

\* DialogueEngine._normalize_warranty
_normalize_warranty(warranty) ==
    IF warranty.t = "bool" THEN warranty
    ELSE IF warranty.t = "str" /\ Lower(warranty.s) \in WarrantyYes THEN PyBool(TRUE)
    ELSE IF warranty.t = "str" /\ Lower(warranty.s) \in WarrantyNo THEN PyBool(FALSE)
    ELSE PyBool(Truthy(warranty))

\* A decoded JSON object: the keys it holds and their values (dict.get gives
\* None for a key it does not hold)
DictGet(pd, k) == IF k \in pd.keys THEN pd.val[k] ELSE PyNull

\* Mutant of Supplied: every block assigns, whether or not the key holds a value
SuppliedAlways(field, v) == TRUE

\* The condition of the `if` guarding a field's block of update_state:
\* truthiness for the four text fields, `is not None` for mileage and warranty
Supplied(field, v) ==
    IF field \in {"mileage", "warranty"} THEN v # PyNull ELSE Truthy(v)

\* The value the block stores, or the exception of its normalizer
Normalized(field, v) ==
    CASE field = "car_reg" -> _normalize_car_reg(v)
      [] field = "mileage" -> _normalize_mileage(v)
      [] field = "warranty" -> Ok(_normalize_warranty(v))
      [] OTHER -> Ok(v)

\* Mutant of StoreField: a mileage is added to the one already stored
StoreFieldAdding(acc, field, norm) ==
    IF ~norm.ok THEN [acc EXCEPT !.raised = TRUE]
    ELSE [state |-> [acc.state EXCEPT ![field] =
                        IF field = "mileage" /\ norm.v.t = "int" /\ @.t = "int"
                        THEN PyInt(@.n + norm.v.n) ELSE norm.v],
          updates |-> Append(acc.updates, field),
          raised |-> FALSE]

\* One `if ...: self.state.<field> = ...; updates[field] = True` block of
\* update_state; acc is the engine state, the updates so far and whether an
\* earlier block raised
StoreField(acc, field, norm) ==
    IF ~norm.ok THEN [acc EXCEPT !.raised = TRUE]
    ELSE [state |-> [acc.state EXCEPT ![field] = norm.v],
          updates |-> Append(acc.updates, field),
          raised |-> FALSE]
\* Mutant of UpdateField: a field whose key holds no value is cleared
UpdateFieldClearing(acc, field, v) ==
    IF acc.raised THEN acc
    ELSE IF ~Supplied(field, v) THEN [acc EXCEPT !.state[field] = PyNull]
    ELSE StoreField(acc, field, Normalized(field, v))

\* One block of update_state, guard included
UpdateField(acc, field, v) ==
    IF acc.raised \/ ~Supplied(field, v) THEN acc
    ELSE StoreField(acc, field, Normalized(field, v))

\* The blocks of update_state from the i-th on, in source order
RECURSIVE UpdateFrom(_, _, _)
UpdateFrom(acc, pd, i) ==
    IF i > Len(BookingField) THEN acc
    ELSE UpdateFrom(UpdateField(acc, BookingField[i], DictGet(pd, BookingField[i])),
                    pd, i + 1)

\* DialogueEngine.update_state: the state it leaves, list(updates.keys()), and
\* whether a normalizer raised (the blocks before it have then been applied)
update_state(st, pd) ==
    UpdateFrom([state |-> st, updates |-> <<>>, raised |-> FALSE], pd, 1)

\* DialogueEngine.get_next_question (None when complete or nothing is missing)
get_next_question(st) ==
    IF is_complete(st) THEN PyNull
    ELSE IF get_missing_fields(st) # <<>> THEN QUESTIONS[get_missing_fields(st)[1]]
    ELSE PyNull

\* Mutant of get_next_response: the question is asked whether or not the parse
\* succeeded
get_next_response_always_asks(st, parse_success) ==
    IF is_complete(st)
    THEN [type |-> "completion", text |-> COMPLETION_MESSAGE, use_prerecorded |-> TRUE,
          filename |-> PyStr(<<"completion", ".wav">>)]
    ELSE IF Truthy(get_next_question(st))
    THEN [type |-> "question", text |-> get_next_question(st), use_prerecorded |-> TRUE,
          filename |-> WavName(get_missing_fields(st)[1])]
    ELSE [type |-> "fallback_llm", text |-> PyNull, use_prerecorded |-> FALSE,
          filename |-> PyNull]

\* DialogueEngine.get_next_response
get_next_response(st, parse_success) ==
    IF is_complete(st)
    THEN [type |-> "completion", text |-> COMPLETION_MESSAGE, use_prerecorded |-> TRUE,
          filename |-> PyStr(<<"completion", ".wav">>)]
    ELSE IF parse_success /\ Truthy(get_next_question(st))
    THEN [type |-> "question", text |-> get_next_question(st), use_prerecorded |-> TRUE,
          filename |-> WavName(get_missing_fields(st)[1])]
    ELSE [type |-> "fallback_llm", text |-> PyNull, use_prerecorded |-> FALSE,
          filename |-> PyNull]

----------------------------------------------------------------------------
(* utils/llm_parser.py *)

\* A value json.loads can return: an object (the keys it holds, their values) or
\* anything else (null, a number, a string, a list), held in sv
AllKeys == FieldNames \cup {"notes"}
NoValues == [k \in AllKeys |-> PyNull]
JDict(keys, val) == [t |-> "dict", keys |-> keys, val |-> val, sv |-> PyNull]
JOther(v) == [t |-> "other", keys |-> {}, val |-> NoValues, sv |-> v]
PyNone == JOther(PyNull)

\* The object {k1: v1, ...} given as a set of <<key, value>> pairs
Obj(pairs) ==
    JDict({p[1] : p \in pairs},
          [k \in AllKeys |-> IF \E p \in pairs : p[1] = k
                             THEN (CHOOSE p \in pairs : p[1] = k)[2] ELSE PyNull])

\* bool(parsed_data) of a decoded value
TruthyDecoded(d) == IF d.t = "dict" THEN d.keys # {} ELSE Truthy(d.sv)

\* The text a generation call returns, as a sequence of segments:
\*   "json"       the text of one JSON document, doc its decoded value
\*   "junk"       text from a "{" to a "}" that is no JSON document
\*   "prose"      words with no brace and no backtick
\*   "fence_json" the marker ```json        "fence"  the marker ```
\*   "nl"         one whitespace character
Seg(k) == [k |-> k, doc |-> PyNone]
JsonSeg(doc) == [k |-> "json", doc |-> doc]
HasBrace(seg) == seg.k = "junk" \/ (seg.k = "json" /\ seg.doc.t = "dict")

\* json.loads(text.strip()): the document when the text is exactly one, else
\* JSONDecodeError
RECURSIVE LStripNl(_)
LStripNl(segs) == IF segs # <<>> /\ Head(segs).k = "nl" THEN LStripNl(Tail(segs)) ELSE segs
RECURSIVE RStripNl(_)
RStripNl(segs) ==
    IF segs # <<>> /\ segs[Len(segs)].k = "nl"
    THEN RStripNl(SubSeq(segs, 1, Len(segs) - 1)) ELSE segs
json_loads(segs) ==
    LET body == RStripNl(LStripNl(segs))
    IN  IF Len(body) = 1 /\ body[1].k = "json"
        THEN [ok |-> TRUE, v |-> body[1].doc] ELSE [ok |-> FALSE, v |-> PyNone]

\* The first position p > from with segs[p].k in kinds, 0 when there is none
FindSeg(segs, kinds, from) ==
    LET hits == {p \in (from + 1)..Len(segs) : segs[p].k \in kinds}
    IN  IF hits = {} THEN 0 ELSE CHOOSE p \in hits : \A q \in hits : p <= q

\* llm_output[start:end] behind the marker at position open, where end is the
\* next ``` or, when find gives -1, the last character of the text (a one-
\* character segment goes, a longer one is cut short and is no document any more)
FencedBody(segs, open) ==
    LET close == FindSeg(segs, {"fence", "fence_json"}, open)
        lastSeg == segs[Len(segs)]
    IN  IF close # 0 THEN SubSeq(segs, open + 1, close - 1)
        ELSE IF open = Len(segs) THEN <<>>
        ELSE IF lastSeg.k = "nl" THEN SubSeq(segs, open + 1, Len(segs) - 1)
        ELSE Append(SubSeq(segs, open + 1, Len(segs) - 1),
                    Seg(IF lastSeg.k = "prose" THEN "prose" ELSE "junk"))

\* parse_llm_json_response: ok = FALSE is an exception leaving the function
\* (JSONDecodeError of a later json.loads, AttributeError for an output of None)
parse_llm_json_response(llm_output) ==
    IF llm_output.kind = "none" THEN [ok |-> FALSE, v |-> PyNone]
    ELSE
    LET segs == llm_output.segs
        direct == json_loads(segs)
        fenceJson == FindSeg(segs, {"fence_json"}, 0)
        fence == FindSeg(segs, {"fence"}, 0)
        braces == {p \in DOMAIN segs : HasBrace(segs[p])}
        first == CHOOSE p \in braces : \A q \in braces : p <= q
        lastB == CHOOSE p \in braces : \A q \in braces : q <= p
    IN  IF direct.ok THEN direct
        ELSE IF fenceJson # 0 THEN json_loads(FencedBody(segs, fenceJson))
        ELSE IF fence # 0 THEN json_loads(FencedBody(segs, fence))
        ELSE IF braces # {} THEN json_loads(SubSeq(segs, first, lastB))
        ELSE [ok |-> TRUE, v |-> PyNone]

\* validate_parsed_data
validate_parsed_data(parsed) ==
    /\ parsed.t = "dict"
    /\ \E k \in parsed.keys : parsed.val[k] # PyNull

Greetings ==
    {<<"h","e","l","l","o">>, <<"h","i">>, <<"h","e","y">>,
     <<"g","o","o","d"," ","m","o","r","n","i","n","g">>, <<"g","o","o","d"," ","a","f","t","e","r","n","o","o","n">>, <<"g","o","o","d"," ","e","v","e","n","i","n","g">>,
     <<"h","o","w","d","y">>, <<"w","h","a","t","'","s"," ","u","p">>, <<"h","o","w"," ","a","r","e"," ","y","o","u">>}
InfoIndicators ==
    {<<"i","'","m"," ">>, <<"m","y"," ","n","a","m","e">>, <<"n","a","m","e"," ","i","s">>,
     <<"r","e","g","i","s","t","r","a","t","i","o","n">>, <<"m","i","l","e","s">>, <<"w","a","r","r","a","n","t","y">>,
     <<"o","i","l">>, <<"b","r","a","k","e">>, <<"s","e","r","v","i","c","e">>}

\* Mutant of is_greeting: no bound on the number of words
is_greeting_any_length(user_message) ==
    LET msg == Strip(Lower(user_message))
    IN  /\ \E g \in Greetings : StartsWith(msg, g)
        /\ ~\E ind \in InfoIndicators : Contains(msg, ind)

\* is_greeting
is_greeting(user_message) ==
    LET msg == Strip(Lower(user_message))
    IN  /\ \E g \in Greetings : StartsWith(msg, g)
        /\ Len(Split(msg)) < 8
        /\ ~\E ind \in InfoIndicators : Contains(msg, ind)

QuestionStarters ==
    {<<"w","h","a","t"," ">>, <<"w","h","e","n"," ">>, <<"w","h","e","r","e"," ">>,
     <<"h","o","w"," ">>, <<"w","h","y"," ">>, <<"c","a","n"," ","y","o","u"," ">>,
     <<"c","o","u","l","d"," ","y","o","u"," ">>, <<"w","i","l","l"," ","y","o","u"," ">>}

\* should_use_parser
should_use_parser(user_message) ==
    LET msg == Strip(Lower(user_message))
    IN  /\ ~is_greeting(msg)
        /\ ~\E q \in QuestionStarters : StartsWith(msg, q)
        /\ ~(Len(Split(msg)) > 30)

----------------------------------------------------------------------------
(* utils/hybrid_handler.py *)

\* One entry of conversation_history
Entry(role, content) == [role |-> role, content |-> content]

\* HybridBookingHandler._get_last_bot_message
_get_last_bot_message(history) ==
    LET bots == {i \in DOMAIN history : history[i].role = "assistant"}
    IN  IF bots = {} THEN PyNull
        ELSE history[CHOOSE i \in bots : \A j \in bots : j <= i].content

\* A call of one of the two generation callables, as the callee sees it
ParserCall(last_bot) ==
    [fn |-> "llm_call_function", purpose |-> "parser", max_tokens |-> 200,
     last_bot_message |-> last_bot]
FallbackCall ==
    [fn |-> "llm_call_function", purpose |-> "fallback", max_tokens |-> 150,
     last_bot_message |-> PyNull]

\* The result dict of _try_parser (kind tells the failures apart)
ParserFailure(call, kind) ==
    [success |-> FALSE, parsed_data |-> PyNone, kind |-> kind, calls |-> <<call>>]
ParserOutcome(call, reply, decoded) ==
    IF reply.kind = "raise" THEN ParserFailure(call, "call_raised")
    ELSE IF ~decoded.ok THEN ParserFailure(call, "decode_raised")
    ELSE IF TruthyDecoded(decoded.v) /\ validate_parsed_data(decoded.v)
    THEN [success |-> TRUE, parsed_data |-> decoded.v, kind |-> "success",
          calls |-> <<call>>]
    ELSE ParserFailure(call, "rejected")

\* HybridBookingHandler._try_parser. reply is what llm_call_function does on this
\* call: raises, returns None, or returns a text. Every exception of the call and
\* of the decoding ends in the except branch.
_try_parser(history, reply) ==
    ParserOutcome(ParserCall(_get_last_bot_message(history)), reply,
                  parse_llm_json_response(reply))

\* HybridBookingHandler._use_fallback_llm: with a streaming function nothing is
\* called; without, llm_call_function is called once and may raise
_use_fallback_llm(reply, has_stream) ==
    IF has_stream
    THEN [ok |-> TRUE, response |-> PyNull, streaming |-> TRUE, calls |-> <<>>]
    ELSE IF reply.kind = "raise"
    THEN [ok |-> FALSE, response |-> PyNull, streaming |-> FALSE, calls |-> <<FallbackCall>>]
    ELSE [ok |-> TRUE, response |-> reply.text, streaming |-> FALSE,
          calls |-> <<FallbackCall>>]

NameIndicators ==
    <<<<"i","'","m"," ">>,
      <<"m","y"," ","n","a","m","e"," ","i","s"," ">>,
      <<"t","h","i","s"," ","i","s"," ">>,
      <<"n","a","m","e","'","s"," ">>>>
BackfillYes == {<<"y","e","s">>, <<"y","e","a","h">>, <<"y","e","p">>, <<"u","n","d","e","r">>}
BackfillNo == {<<"n","o">>, <<"n","o","p","e">>, <<"n","o","t">>, <<"e","x","p","i","r","e","d">>}

\* user_message[idx:].split()[0].strip(".,") stored when longer than one
\* character; [0] of an empty split raises IndexError
StoreName(acc, words) ==
    IF words = <<>> THEN [acc EXCEPT !.ok = FALSE]
    ELSE IF Len(StripSet(words[1], {".", ","})) > 1
    THEN [acc EXCEPT !.state["name"] = PyStr(Title(StripSet(words[1], {".", ","})))]
    ELSE acc

\* One round of the `for indicator in name_indicators` loop
BackfillName(acc, indicator, user_message) ==
    IF ~acc.ok \/ ~Contains(Lower(user_message), indicator) THEN acc
    ELSE StoreName(acc, Split(SubSeq(user_message,
                                     Find(Lower(user_message), indicator)
                                         + Len(indicator) + 1,
                                     Len(user_message))))

\* The loop from its i-th indicator on (it has no break)
RECURSIVE BackfillNames(_, _, _)
BackfillNames(acc, user_message, i) ==
    IF i > Len(NameIndicators) THEN acc
    ELSE BackfillNames(BackfillName(acc, NameIndicators[i], user_message),
                       user_message, i + 1)

\* Mutant of BackfillWarranty: the block runs whether or not a warranty is stored
BackfillWarrantyOverwrites(named, msg_lower) ==
    IF ~named.ok THEN named
    ELSE IF ~(\/ Contains(msg_lower, <<"w","a","r","r","a","n","t","y">>)
              \/ Contains(msg_lower, <<"s","e","r","v","i","c","e"," ","c","o","n","t","r","a","c","t">>))
    THEN named
    ELSE IF \E w \in BackfillYes : Contains(msg_lower, w)
    THEN [named EXCEPT !.state["warranty"] = PyBool(TRUE)]
    ELSE IF \E w \in BackfillNo : Contains(msg_lower, w)
    THEN [named EXCEPT !.state["warranty"] = PyBool(FALSE)]
    ELSE named

\* The warranty block, skipped when the name block raised
BackfillWarranty(named, msg_lower) ==
    IF ~named.ok \/ named.state["warranty"] # PyNull THEN named
    ELSE IF ~(\/ Contains(msg_lower, <<"w","a","r","r","a","n","t","y">>)
              \/ Contains(msg_lower, <<"s","e","r","v","i","c","e"," ","c","o","n","t","r","a","c","t">>))
    THEN named
    ELSE IF \E w \in BackfillYes : Contains(msg_lower, w)
    THEN [named EXCEPT !.state["warranty"] = PyBool(TRUE)]
    ELSE IF \E w \in BackfillNo : Contains(msg_lower, w)
    THEN [named EXCEPT !.state["warranty"] = PyBool(FALSE)]
    ELSE named

\* HybridBookingHandler._opportunistic_parse_from_history: the state it leaves
\* and whether it returned (ok) or raised
_opportunistic_parse_from_history(st, user_message) ==
    BackfillWarranty(IF ~Truthy(st["name"])
                     THEN BackfillNames([ok |-> TRUE, state |-> st], user_message, 1)
                     ELSE [ok |-> TRUE, state |-> st],
                     Lower(user_message))

\* The dict process_user_message returns (streaming is None where the key is absent)
NoResult ==
    [bot_response |-> PyNull, use_prerecorded |-> FALSE, audio_filename |-> PyNull,
     is_complete |-> FALSE, state |-> BookingState, updated_fields |-> <<>>,
     latency_breakdown |-> {}, mode |-> "none", streaming |-> PyNull]

\* HybridBookingHandler.get_greeting, with the keys process_user_message adds to it
get_greeting(st) ==
    [bot_response |-> GREETING_MESSAGE, use_prerecorded |-> TRUE,
     audio_filename |-> PyStr(<<"greeting", ".wav">>), is_complete |-> FALSE,
     state |-> st, updated_fields |-> <<>>, latency_breakdown |-> {"greeting"},
     mode |-> "greeting", streaming |-> PyNull]

\* What a turn leaves behind: the engine state, the history, and what the caller
\* sees (raised names the step whose exception reached the caller)
Turn(st, history, raised, result, parser, parsed, calls) ==
    [state |-> st, history |-> history, raised |-> raised, result |-> result,
     parser |-> parser, parsed |-> parsed, calls |-> calls]

\* Mutant of GreetingPath: the greeting is returned without its history entry
GreetingPathSilent(st, history) ==
    Turn(st, history, "none", get_greeting(st), "skipped", PyNone, <<>>)

\* process_user_message, lines 66-80: the greeting fast path
GreetingPath(st, history) ==
    Turn(st, Append(history, Entry("assistant", get_greeting(st).bot_response)),
         "none", get_greeting(st), "skipped", PyNone, <<>>)

\* process_user_message, lines 104-121: the history entry and the returned dict
ParserReturn(history, parser_result, update_meta, response_meta) ==
    Turn(update_meta.state, Append(history, Entry("assistant", response_meta.text)),
         "none",
         [bot_response |-> response_meta.text,
          use_prerecorded |-> response_meta.use_prerecorded,
          audio_filename |-> response_meta.filename,
          is_complete |-> is_complete(update_meta.state),
          state |-> update_meta.state,
          updated_fields |-> update_meta.updates,
          latency_breakdown |-> {"parser", "total"},
          mode |-> "parser",
          streaming |-> PyNull],
         "success", parser_result.parsed_data, parser_result.calls)

\* process_user_message, lines 99-102: get_next_response follows update_state and
\* reads the state it left; an exception of update_state leaves the turn
ParserRespond(history, parser_result, update_meta) ==
    IF update_meta.raised
    THEN Turn(update_meta.state, history, "update_state", NoResult, "success",
              parser_result.parsed_data, parser_result.calls)
    ELSE ParserReturn(history, parser_result, update_meta,
                      get_next_response(update_meta.state, TRUE))

\* Mutant of ParserPath: get_next_response is called before update_state, on the
\* state the turn started with
ParserPathStale(st, history, parser_result) ==
    IF update_state(st, parser_result.parsed_data).raised
    THEN ParserRespond(history, parser_result,
                       update_state(st, parser_result.parsed_data))
    ELSE ParserReturn(history, parser_result,
                      update_state(st, parser_result.parsed_data),
                      get_next_response(st, TRUE))

\* process_user_message, lines 94-121: the parser succeeded
ParserPath(st, history, parser_result) ==
    ParserRespond(history, parser_result, update_state(st, parser_result.parsed_data))

\* process_user_message, lines 136-154: the history entry and the returned dict
FallbackReturn(history, parser, calls, fallback_result, backfill) ==
    IF ~backfill.ok
    THEN Turn(backfill.state, history, "backfill", NoResult, parser, PyNone, calls)
    ELSE Turn(backfill.state,
              Append(history, Entry("assistant", fallback_result.response)),
              "none",
              [bot_response |-> fallback_result.response,
               use_prerecorded |-> FALSE,
               audio_filename |-> PyNull,
               is_complete |-> is_complete(backfill.state),
               state |-> backfill.state,
               updated_fields |-> <<>>,
               latency_breakdown |->
                   (IF parser = "skipped" THEN {} ELSE {"parser"})
                       \cup {"fallback_llm", "total"},
               mode |-> "fallback_llm",
               streaming |-> PyBool(fallback_result.streaming)],
              parser, PyNone, calls)

\* process_user_message, lines 125-134: the backfill runs once the fallback
\* generation has returned
FallbackBackfill(st, history, user_message, parser, calls, fallback_result) ==
    IF ~fallback_result.ok
    THEN Turn(st, history, "fallback_llm", NoResult, parser, PyNone,
              calls \o fallback_result.calls)
    ELSE FallbackReturn(history, parser, calls \o fallback_result.calls, fallback_result,
                        _opportunistic_parse_from_history(st, user_message))

\* process_user_message, lines 123-154: the parser failed or was skipped
FallbackPath(st, history, user_message, parser, calls, fallback_reply, has_stream) ==
    FallbackBackfill(st, history, user_message, parser, calls,
                     _use_fallback_llm(fallback_reply, has_stream))

\* Mutant of ParserAttempt: _try_parser without its try/except, so that an
\* exception of the call or of the decoding leaves the turn
ParserAttemptUncaught(st, history, user_message, parser_result, fallback_reply, has_stream) ==
    IF parser_result.success THEN ParserPath(st, history, parser_result)
    ELSE IF parser_result.kind \in {"call_raised", "decode_raised"}
    THEN Turn(st, history, "parser", NoResult, parser_result.kind, PyNone,
              parser_result.calls)
    ELSE FallbackPath(st, history, user_message, parser_result.kind,
                      parser_result.calls, fallback_reply, has_stream)

\* process_user_message, lines 89-94: the branch on the parser's result
ParserAttempt(st, history, user_message, parser_result, fallback_reply, has_stream) ==
    IF parser_result.success THEN ParserPath(st, history, parser_result)
    ELSE FallbackPath(st, history, user_message, parser_result.kind,
                      parser_result.calls, fallback_reply, has_stream)

\* Mutant of Classify: no greeting fast path
ClassifyNoFastPath(st, history, user_message, parser_reply, fallback_reply, has_stream) ==
    IF ~is_complete(st) /\ should_use_parser(user_message)
    THEN ParserAttempt(st, history, user_message, _try_parser(history, parser_reply),
                       fallback_reply, has_stream)
    ELSE FallbackPath(st, history, user_message, "skipped", <<>>, fallback_reply,
                      has_stream)

\* Mutant of Classify: no skip-parser override for a complete booking
ClassifyAlwaysParses(st, history, user_message, parser_reply, fallback_reply, has_stream) ==
    IF is_greeting(user_message) THEN GreetingPath(st, history)
    ELSE IF should_use_parser(user_message)
    THEN ParserAttempt(st, history, user_message, _try_parser(history, parser_reply),
                       fallback_reply, has_stream)
    ELSE FallbackPath(st, history, user_message, "skipped", <<>>, fallback_reply,
                      has_stream)

\* process_user_message, lines 66-91, history holding the user's entry
Classify(st, history, user_message, parser_reply, fallback_reply, has_stream) ==
    IF is_greeting(user_message) THEN GreetingPath(st, history)
    ELSE IF ~is_complete(st) /\ should_use_parser(user_message)
    THEN ParserAttempt(st, history, user_message, _try_parser(history, parser_reply),
                       fallback_reply, has_stream)
    ELSE FallbackPath(st, history, user_message, "skipped", <<>>, fallback_reply,
                      has_stream)

\* HybridBookingHandler.process_user_message
process_user_message(st, history, user_message, parser_reply, fallback_reply, has_stream) ==
    Classify(st, Append(history, Entry("user", PyStr(user_message))), user_message,
             parser_reply, fallback_reply, has_stream)

----------------------------------------------------------------------------
(* Inputs *)

\* Values a parser reply can hold for a field
V_Name == PyStr(<<"A","l","e","x"," ","S","m","i","t","h">>)
V_Reg == PyStr(<<"a","b","1","2"," ","c","d","e">>)
V_RegBlank == PyStr(<<" ">>)
V_Model == PyStr(<<"F","o","r","d">>)
V_Issue == PyStr(<<"o","i","l">>)
V_Lots == PyStr(<<"l","o","t","s">>)

\* A full booking with the given registration (mileage 0, warranty false)
FullMap(reg) ==
    Obj({<<"name", V_Name>>, <<"car_reg", reg>>, <<"car_model", V_Model>>,
         <<"mileage", PyInt(0)>>, <<"warranty", PyBool(FALSE)>>, <<"issue", V_Issue>>})

\* Objects with several keys
MixedMaps ==
    {FullMap(V_Reg),
     FullMap(V_RegBlank),
     Obj({<<"name", V_Name>>, <<"car_reg", V_Reg>>, <<"car_model", V_Model>>,
          <<"mileage", PyInt(5000)>>, <<"warranty", PyBool(TRUE)>>}),
     Obj({<<"name", V_Name>>, <<"mileage", V_Lots>>, <<"issue", V_Issue>>}),
     Obj({<<"name", V_Name>>, <<"car_reg", PyInt(12)>>, <<"issue", V_Issue>>}),
     Obj({<<"notes", V_Issue>>}),
     Obj({<<"name", PyNull>>, <<"car_reg", PyNull>>, <<"car_model", PyNull>>,
          <<"mileage", PyNull>>, <<"warranty", PyNull>>, <<"issue", PyNull>>}),
     Obj({})}

\* The values tried for each field on its own
FieldValues ==
    [f \in FieldNames |->
        CASE f = "name" -> {V_Name, PyStr(<<>>)}
          [] f = "car_reg" -> {V_Reg, V_RegBlank, PyStr(<<"A","B","1","2","C","D","E">>), PyInt(12),
                               PyStr(<<"a","b","1","2","\t","c","d","e">>)}
          [] f = "car_model" -> {V_Model}
          [] f = "mileage" -> {PyInt(0), PyInt(5000), PyStr(<<"1","2","0","k">>), PyStr(<<"4","5",",","0","0","0"," ","m","i","l","e","s">>),
                               PyStr(<<"3","2",".","3","k">>), V_Lots, PyFloat(450005), PyList(1)}
          [] f = "warranty" -> {PyBool(TRUE), PyBool(FALSE), PyStr(<<"Y","e","s">>), PyStr(<<"e","x","p","i","r","e","d">>),
                                PyStr(<<"m","a","y","b","e">>), PyStr(<<>>),
                                PyStr(<<"N","O">>), PyStr(<<"A","c","t","i","v","e">>)}
          [] f = "issue" -> {V_Issue}]

\* The maps update_state is called with
ParsedMaps ==
    MixedMaps \cup UNION {{Obj({<<f, v>>}) : v \in FieldValues[f]} : f \in FieldNames}

\* What the user says
U_Hi == <<"H","i"," ","t","h","e","r","e">>
U_Alex == <<"I","'","m"," ","A","l","e","x">>
U_What == <<"w","h","a","t"," ","t","i","m","e">>
U_Warranty == <<"n","o"," ","w","a","r","r","a","n","t","y">>
U_NameCut == <<"m","y"," ","n","a","m","e"," ","i","s"," ">>
Utterances == {U_Hi, U_Alex, U_What, U_Warranty, U_NameCut}

\* Utterances that probe the routing of a turn: greetings of 7 and of 8 words,
\* a greeting that carries a name, a name that begins with the letters of a
\* greeting, a one-word question, statements of 30 and of 31 words
RECURSIVE Repeat(_, _)
Repeat(str, n) == IF n = 0 THEN <<>> ELSE str \o Repeat(str, n - 1)
U_Hi7 == <<"H","i">> \o Repeat(<<" ","a">>, 6)
U_Hi8 == <<"H","i">> \o Repeat(<<" ","a">>, 7)
U_HiName == <<"H","i",","," ","m","y"," ","n","a","m","e"," ","i","s"," ","A","l">>
U_Hillary == <<"H","i","l","l","a","r","y">>
U_Why == <<"W","h","y","?">>
U_Words30 == <<"o","k">> \o Repeat(<<" ","a">>, 29)
U_Words31 == <<"o","k">> \o Repeat(<<" ","a">>, 30)
RoutingUtterances ==
    {U_Hi, U_Hi7, U_Hi8, U_HiName, U_Hillary, U_Why, U_What, U_Words30, U_Words31,
     U_Warranty}

\* What llm_call_function does when the parser calls it
Text(segs) == [kind |-> "text", segs |-> segs]
ReplyRaise == [kind |-> "raise", segs |-> <<>>]
\* No parser call was made
NoReply == [kind |-> "nocall", segs |-> <<>>]
ParserReplies ==
    {ReplyRaise,
     Text(<<Seg("prose")>>),
     Text(<<Seg("fence_json"), Seg("nl"), Seg("junk"), Seg("nl"), Seg("fence")>>),
     Text(<<Seg("fence_json"), Seg("nl"), JsonSeg(Obj({<<"name", V_Name>>})), Seg("nl"),
            Seg("fence")>>),
     Text(<<Seg("prose"), JsonSeg(Obj({<<"car_reg", V_Reg>>})), Seg("prose")>>),
     Text(<<Seg("fence"), Seg("prose"), Seg("fence"), Seg("nl"),
            JsonSeg(Obj({<<"name", V_Name>>}))>>)}
        \cup {Text(<<JsonSeg(m)>>) : m \in MixedMaps \ {Obj({})}}

\* A booking that lacks the warranty alone
AllButWarranty ==
    Obj({<<"name", V_Name>>, <<"car_reg", V_Reg>>, <<"car_model", V_Model>>,
         <<"mileage", PyInt(5000)>>, <<"issue", V_Issue>>})
\* What the parser call does in the routing sessions
RoutingReplies ==
    {Text(<<Seg("prose")>>),
     Text(<<JsonSeg(Obj({<<"name", PyStr(<<"H","i","l","l","a","r","y">>)>>}))>>),
     Text(<<JsonSeg(AllButWarranty)>>)}

\* What llm_call_function does when the fallback calls it
FallbackRaise == [kind |-> "raise", text |-> PyNull]
FallbackReplies == {FallbackRaise, [kind |-> "text", text |-> PyStr(<<"Happy to help.">>)]}

\* Turns and direct engine calls explored per session
MaxTurns == 2

----------------------------------------------------------------------------
(* The socket application: app.py, utils/llm.py *)

\* The text get_llm_response returns when generation failed
APOLOGY ==
    PyStr(<<"I'm sorry, I'm having trouble processing your request right now. Please try again.">>)
\* A text a provider generated
LLM_TEXT == PyStr(<<"When would you like to come in?">>)

\* get_llm_response_openrouter, _cohere, _groq: the text of the API's answer;
\* whatever the API call raised is logged and raised again
ProviderCall(outcome) == IF outcome = "raise" THEN Raised ELSE Ok(LLM_TEXT)

\* The body of the try of get_llm_response: the call of the provider selected,
\* ValueError for a provider that is none of the known ones
SelectProvider(known, provider, outcome) ==
    IF provider \in known THEN ProviderCall(outcome) ELSE Raised

\* Mutant of CatchException: the exception of the body is not caught
CatchNothing(body, v) == body

\* try: <body>  except Exception: return v
CatchException(body, v) == IF body.ok THEN body ELSE Ok(v)

\* The providers each get_llm_response knows
AppProviders == {"openrouter", "cohere"}
LlmProviders == {"openrouter", "cohere", "groq"}

\* app.get_llm_response(user_message), provider the configured LLM_PROVIDER
get_llm_response(provider, outcome) ==
    CatchException(SelectProvider(AppProviders, provider, outcome), APOLOGY)

\* utils.llm.get_llm_response(user_message, provider, ...)
llm_get_llm_response(provider, outcome) ==
    CatchException(SelectProvider(LlmProviders, provider, outcome), APOLOGY)

\* One call of a get_llm_response: what it was given and what came of it
LlmCall(fn, user_message, provider, outcome, result) ==
    [fn |-> fn, user_message |-> user_message, provider |-> provider,
     outcome |-> outcome, result |-> result]

RECURSIVE Sum(_)
Sum(seq) == IF seq = <<>> THEN 0 ELSE Head(seq) + Sum(Tail(seq))

\* sum(latency_records) / len(latency_records), in hundredths of a millisecond
Average(records) ==
    [t |-> "float", s |-> <<>>, n |-> (200 * Sum(records) + Len(records)) \div (2 * Len(records))]

\* Mutant of save_recording_metadata: a failure of the write is raised
save_recording_metadata_raising(records, total_latency, write_ok) ==
    [latency_records |-> Append(records, total_latency),
     returned |-> IF write_ok THEN Ok(Average(Append(records, total_latency))) ELSE Raised]

\* save_recording_metadata: the total is appended to the global latency_records
\* and averaged, then the metadata file is written; avg_latency is returned, or
\* None when anything raised (write_ok: open() and json.dump() succeed)
save_recording_metadata(records, total_latency, write_ok) ==
    [latency_records |-> Append(records, total_latency),
     returned |-> IF write_ok THEN Ok(Average(Append(records, total_latency)))
                  ELSE Ok(PyNull)]

\* emit(event, payload)
Emit(event, payload) == [event |-> event, payload |-> payload]
NoAudio == Emit("error", [message |-> "No audio data received"])
\* What the outer `except Exception` of handle_audio_data emits
TranscriptionFailed == Emit("error", [message |-> "Transcription failed"])
BotResponse(user_text, bot_text, recorded, average) ==
    Emit("bot_response", [user_text |-> user_text, bot_text |-> bot_text,
                          success |-> TRUE, recorded |-> recorded, average |-> average])

\* What one run of handle_audio_data leaves: the events emitted, the calls of
\* get_llm_response made, the global latency_records
Run(events, calls, records) ==
    [emitted |-> events, llm_calls |-> calls, latency_records |-> records]

\* The call of get_llm_response(transcription) a run makes
AppCall(rq, llm) == <<LlmCall("app", rq.text, rq.provider, rq.outcome, llm)>>

\* Recording mode, from the return of save_recording_metadata on:
\* os.remove(user_wav_path), then the bot_response with
\* `round(avg_latency, 2) if avg_latency else None`
Recorded(rq, llm, saved) ==
    IF ~saved.returned.ok \/ rq.fault = "remove_user"
    THEN Run(<<TranscriptionFailed>>, AppCall(rq, llm), saved.latency_records)
    ELSE Run(<<BotResponse(rq.text, llm.v, TRUE,
                           IF Truthy(saved.returned.v) THEN saved.returned.v ELSE PyNull)>>,
             AppCall(rq, llm), saved.latency_records)

\* handle_audio_data from the return of get_llm_response on
Answered(rq, records, llm) ==
    IF ~llm.ok THEN Run(<<TranscriptionFailed>>, AppCall(rq, llm), records)
    ELSE IF rq.recording_mode
    THEN Recorded(rq, llm, save_recording_metadata(records, rq.total, rq.fault # "save"))
    ELSE Run(<<BotResponse(rq.text, llm.v, FALSE, PyNull)>>, AppCall(rq, llm), records)

\* handle_audio_data(data): rq holds data['audio'] and data['recording_mode'] and
\* what the services do in this run: the step that fails (fault), the
\* transcription (text), the provider configured and what its API call does
\* (outcome), the latency measured (total)
handle_audio_data(rq, records) ==
    IF rq.audio = "none" THEN Run(<<NoAudio>>, <<>>, records)
    ELSE IF rq.audio = "badpad" \/ rq.fault \in {"convert", "copy", "stt", "remove_wav"}
    THEN Run(<<TranscriptionFailed>>, <<>>, records)
    ELSE Answered(rq, records, get_llm_response(rq.provider, rq.outcome))

\* The transcriptions tried: empty, blank, intelligible
T_Empty == PyStr(<<>>)
T_Blank == PyStr(<<" ", " ">>)
T_Book == PyStr(<<"book a service">>)
Transcriptions == {T_Empty, T_Blank, T_Book}
\* The total latencies measured, in milliseconds
Latencies == {10, 30}
\* The steps of a run that can fail
Faults == {"none", "convert", "copy", "stt", "remove_wav", "save", "remove_user"}

\* The run gets as far as the call of get_llm_response
ReachesLlm(rq) ==
    rq.audio = "webm" /\ rq.fault \notin {"convert", "copy", "stt", "remove_wav"}

\* An input of a run in which everything the run does not look at has its
\* default
Canonical(rq) ==
    /\ rq.audio # "webm" => rq.fault = "none"
    /\ rq.fault \in {"copy", "save", "remove_user"} => rq.recording_mode
    /\ ~ReachesLlm(rq) => rq.text = T_Book /\ rq.provider = "cohere" /\ rq.outcome = "text"
    /\ rq.provider \notin AppProviders => rq.outcome = "text"
    /\ ~(ReachesLlm(rq) /\ rq.recording_mode) => rq.total = 10

AudioRequests ==
    {rq \in [audio : {"none", "badpad", "webm"}, recording_mode : BOOLEAN,
             fault : Faults, text : Transcriptions,
             provider : {"cohere", "groq", "ollama"},
             outcome : {"text", "raise"}, total : Latencies] : Canonical(rq)}

\* No audio_data event was handled
NoRequest ==
    [audio |-> "none", recording_mode |-> FALSE, fault |-> "none", text |-> T_Book,
     provider |-> "cohere", outcome |-> "text", total |-> 10]

\* audio_data events and direct calls explored
MaxRequests == 2

----------------------------------------------------------------------------
(* The session store: utils/booking_state.py *)

SessionIds == {"sid_a", "sid_b"}
\* Connection handlers running at once (async_mode='threading')
Threads == {1, 2}
\* Calls each handler makes
MaxCalls == 2

\* BookingState(session_id); evicted records that `del sessions[...]` removed
\* the object
NewBookingState(session_id) ==
    [session_id |-> session_id, conversation_history |-> <<>>, evicted |-> FALSE]

\* A handler between calls, and at a line of a call
Idle == [pc |-> "idle", sid |-> "sid_a", got |-> 0, raised |-> FALSE, calls |-> 0]

----------------------------------------------------------------------------
(* The state machine *)

\* What the last operation was given and what its caller saw (parser_reply: what
\* the parser call of a turn did; stream_fn: whether the fallback step of a turn
\* was given a stream_llm_function)
Observed(op, pre, pd, parse_success, user_message, turn, updates, response, question) ==
    [op |-> op, pre |-> pre, pd |-> pd, parse_success |-> parse_success,
     user_message |-> user_message, raised |-> turn.raised, result |-> turn.result,
     parser |-> turn.parser, calls |-> turn.calls, updates |-> updates,
     response |-> response, question |-> question,
     parser_reply |-> NoReply, stream_fn |-> FALSE]

NoTurn == Turn(BookingState, <<>>, "none", NoResult, "skipped", PyNone, <<>>)
NoResponse == [type |-> "none", text |-> PyNull, use_prerecorded |-> FALSE,
               filename |-> PyNull]

\* HybridBookingHandler(session_id): a fresh engine and an empty history
Init ==
    /\ state = BookingState
    /\ conversation_history = <<>>
    /\ ops = 0
    /\ last = Observed("init", BookingState, PyNone, FALSE, <<>>, NoTurn, <<>>,
                       NoResponse, PyNull)
    /\ emitted = <<>>
    /\ latency_records = <<>>
    /\ llm_calls = <<>>
    /\ request = NoRequest
    /\ served = 0
    /\ sessions = [sid \in SessionIds |-> 0]
    /\ heap = <<>>
    /\ threads = [t \in Threads |-> Idle]

\* handler.process_user_message(user_message, llm_call_function, stream_llm_function)
ProcessUserMessage(user_message, parser_reply, fallback_reply, has_stream) ==
    \E turn \in {process_user_message(state, conversation_history, user_message,
                                      parser_reply, fallback_reply, has_stream)} :
        /\ state' = turn.state
        /\ conversation_history' = turn.history
        /\ ops' = ops + 1
        /\ last' = [Observed("process_user_message", state, turn.parsed, FALSE,
                             user_message, turn, <<>>, NoResponse, PyNull)
                        EXCEPT !.parser_reply = IF turn.parser = "skipped" THEN NoReply
                                                ELSE parser_reply,
                               !.stream_fn = /\ turn.parser # "success"
                                             /\ turn.result.mode # "greeting"
                                             /\ has_stream]
        /\ UNCHANGED <<appVars, storeVars>>

\* handler.reset()
Reset ==
    /\ state' = BookingState
    /\ conversation_history' = <<>>
    /\ ops' = ops + 1
    /\ last' = Observed("reset", state, PyNone, FALSE, <<>>, NoTurn, <<>>, NoResponse, PyNull)
    /\ UNCHANGED <<appVars, storeVars>>

\* engine.update_state(parsed_data)
UpdateState(parsed_data) ==
    \E r \in {update_state(state, parsed_data)} :
        /\ state' = r.state
        /\ last' = Observed("update_state", state, parsed_data, FALSE, <<>>,
                            [NoTurn EXCEPT !.raised = IF r.raised THEN "update_state"
                                                      ELSE "none"],
                            r.updates, NoResponse, PyNull)
        /\ UNCHANGED <<conversation_history, appVars, storeVars>>

\* engine.get_next_response(parse_success)
GetNextResponse(parse_success) ==
    /\ last' = Observed("get_next_response", state, PyNone, parse_success, <<>>, NoTurn,
                        <<>>, get_next_response(state, parse_success), PyNull)
    /\ UNCHANGED <<state, conversation_history, ops, appVars, storeVars>>

\* engine.get_next_question()
GetNextQuestion ==
    /\ last' = Observed("get_next_question", state, PyNone, FALSE, <<>>, NoTurn, <<>>,
                        NoResponse, get_next_question(state))
    /\ UNCHANGED <<state, conversation_history, ops, appVars, storeVars>>

\* A session of the handler: turns, resets and direct updates of its engine
Next ==
    \/ \E u \in Utterances, p \in ParserReplies, f \in FallbackReplies, s \in BOOLEAN :
          ops < MaxTurns /\ ProcessUserMessage(u, p, f, s)
    \/ \E m \in MixedMaps : ops < MaxTurns /\ UpdateState(m) /\ ops' = ops + 1
    \/ ops < MaxTurns /\ ops > 0 /\ Reset

Spec == Init /\ [][Next]_vars

\* The dialogue engine on its own: any sequence of its three methods
NextEngine ==
    \/ \E m \in ParsedMaps : UpdateState(m) /\ UNCHANGED ops
    \/ \E b \in BOOLEAN : GetNextResponse(b)
    \/ GetNextQuestion

SpecEngine == Init /\ [][NextEngine]_vars

\* The booking conversation of the end-to-end scenario: a greeting, then one turn
\* per field in which the parser extracts a well-formed value of the field asked
Script == <<"name", "car_reg", "car_model", "mileage", "warranty", "issue">>
ScriptValues ==
    [f \in FieldNames |->
        CASE f = "name" -> {V_Name, PyStr(<<"S","a","m">>)}
          [] f = "car_reg" -> {V_Reg, PyStr(<<"X","Y","9","9","Z","Z","Z">>)}
          [] f = "car_model" -> {V_Model, PyStr(<<"F","i","a","t"," ","5","0","0">>)}
          [] f = "mileage" -> {PyInt(5000), PyStr(<<"1","2","0","k">>)}
          [] f = "warranty" -> {PyBool(FALSE), PyStr(<<"Y","e","s">>)}
          [] f = "issue" -> {V_Issue, PyStr(<<"b","r","a","k","e","s">>)}]
ScriptGreetings == {U_Hi, <<"H","e","l","l","o">>}
ScriptAnswers == {U_Alex, <<"A","B","1","2"," ","C","D","E">>}

NextScenario ==
    \/ \E u \in ScriptGreetings, f \in FallbackReplies, s \in BOOLEAN :
          /\ ops = 0
          /\ ProcessUserMessage(u, ReplyRaise, f, s)
    \/ \E u \in ScriptAnswers, f \in FallbackReplies, s \in BOOLEAN :
          /\ ops \in 1..Len(Script)
          /\ \E v \in ScriptValues[Script[ops]] :
                ProcessUserMessage(u, Text(<<JsonSeg(Obj({<<Script[ops], v>>}))>>), f, s)

SpecScenario == Init /\ [][NextScenario]_vars

\* Sessions of turns whose utterances probe the routing
NextRouting ==
    \E u \in RoutingUtterances, p \in RoutingReplies, f \in FallbackReplies, s \in BOOLEAN :
        ops < MaxTurns /\ ProcessUserMessage(u, p, f, s)

SpecRouting == Init /\ [][NextRouting]_vars

\* handle_audio_data(data), an audio_data event of a client
HandleAudioData(rq) ==
    \E run \in {handle_audio_data(rq, latency_records)} :
        /\ emitted' = run.emitted
        /\ llm_calls' = run.llm_calls
        /\ latency_records' = run.latency_records
        /\ request' = rq
        /\ served' = served + 1
        /\ UNCHANGED <<handlerVars, storeVars>>

\* utils.llm.get_llm_response(user_message, provider, ...), called directly
GetLlmResponse(user_message, provider, outcome) ==
    /\ llm_calls' = <<LlmCall("utils.llm", user_message, provider, outcome,
                              llm_get_llm_response(provider, outcome))>>
    /\ emitted' = <<>>
    /\ request' = NoRequest
    /\ served' = served + 1
    /\ UNCHANGED <<latency_records, handlerVars, storeVars>>

NextApp ==
    \/ \E rq \in AudioRequests : served < MaxRequests /\ HandleAudioData(rq)
    \/ \E u \in Transcriptions, p \in LlmProviders \cup {"ollama"}, o \in {"text", "raise"} :
          served < MaxRequests /\ GetLlmResponse(u, p, o)

SpecApp == Init /\ [][NextApp]_vars

\* The step a handler thread t takes in the session store
Step(t, thread) == threads' = [threads EXCEPT ![t] = thread]
At(t, pc) == [threads[t] EXCEPT !.pc = pc]

\* A handler calls get_or_create_session(session_id)
CallGetOrCreate(t, session_id) ==
    /\ threads[t].pc = "idle" /\ threads[t].calls < MaxCalls
    /\ Step(t, [pc |-> "line62", sid |-> session_id, got |-> 0, raised |-> FALSE,
                calls |-> threads[t].calls + 1])
    /\ UNCHANGED <<sessions, heap>>

\* if session_id not in sessions:
Line62(t) ==
    /\ threads[t].pc = "line62"
    /\ Step(t, At(t, IF sessions[threads[t].sid] = 0 THEN "line63" ELSE "line65"))
    /\ UNCHANGED <<sessions, heap>>

\* sessions[session_id] = BookingState(session_id)
Line63(t) ==
    /\ threads[t].pc = "line63"
    /\ heap' = Append(heap, NewBookingState(threads[t].sid))
    /\ sessions' = [sessions EXCEPT ![threads[t].sid] = Len(heap) + 1]
    /\ Step(t, At(t, "line65"))

\* return sessions[session_id]: KeyError when the key is gone
Line65(t) ==
    /\ threads[t].pc = "line65"
    /\ IF sessions[threads[t].sid] = 0
       THEN Step(t, [threads[t] EXCEPT !.pc = "idle", !.raised = TRUE])
       ELSE Step(t, [threads[t] EXCEPT !.pc = "turn", !.got = sessions[threads[t].sid]])
    /\ UNCHANGED <<sessions, heap>>

\* The handler's turn on the session it got: add_to_history(user_text, bot_text)
AddToHistory(t) ==
    /\ threads[t].pc = "turn"
    /\ heap' = [heap EXCEPT ![threads[t].got].conversation_history =
                                Append(@, [by |-> t, sid |-> threads[t].sid])]
    /\ Step(t, At(t, "idle"))
    /\ UNCHANGED sessions

\* A handler calls delete_session(session_id)
CallDelete(t, session_id) ==
    /\ threads[t].pc = "idle" /\ threads[t].calls < MaxCalls
    /\ Step(t, [pc |-> "line70", sid |-> session_id, got |-> 0, raised |-> FALSE,
                calls |-> threads[t].calls + 1])
    /\ UNCHANGED <<sessions, heap>>

\* if session_id in sessions:
Line70(t) ==
    /\ threads[t].pc = "line70"
    /\ Step(t, At(t, IF sessions[threads[t].sid] # 0 THEN "line71" ELSE "idle"))
    /\ UNCHANGED <<sessions, heap>>

\* del sessions[session_id]: KeyError when the key is gone
Line71(t) ==
    /\ threads[t].pc = "line71"
    /\ IF sessions[threads[t].sid] = 0
       THEN /\ Step(t, [threads[t] EXCEPT !.pc = "idle", !.raised = TRUE])
            /\ UNCHANGED <<sessions, heap>>
       ELSE /\ heap' = [heap EXCEPT ![sessions[threads[t].sid]].evicted = TRUE]
            /\ sessions' = [sessions EXCEPT ![threads[t].sid] = 0]
            /\ Step(t, At(t, "idle"))

\* The handlers' calls into the store, interleaved line by line
NextSessions ==
    \E t \in Threads :
        /\ \/ \E sid \in SessionIds : CallGetOrCreate(t, sid)
           \/ Line62(t)
           \/ Line63(t)
           \/ Line65(t)
           \/ AddToHistory(t)
           \/ \E sid \in SessionIds : CallDelete(t, sid)
           \/ Line70(t)
           \/ Line71(t)
        /\ UNCHANGED <<handlerVars, appVars>>

SpecSessions == Init /\ [][NextSessions]_vars

----------------------------------------------------------------------------
(* Properties *)

\* The canonical order of the specification, and a field's place in it
CanonicalOrder == <<"name", "car_reg", "car_model", "mileage", "warranty", "issue">>
Place(f) == CHOOSE i \in DOMAIN CanonicalOrder : CanonicalOrder[i] = f
NullFields(st) == {f \in FieldNames : st[f] = PyNull}
FirstNull(st) ==
    CHOOSE f \in NullFields(st) : \A g \in NullFields(st) : Place(f) <= Place(g)

\* A turn of process_user_message that returned its dict to the caller
Returned == last.op = "process_user_message" /\ last.raised = "none"
\* The kinds of a failed parser attempt
ParserFailed == last.parser \in {"call_raised", "decode_raised", "rejected"}
\* The field whose canned question is the text
Asks(text, f) == text.t = "str" /\ QUESTIONS[f].s[1] \in Range(text.s)

\* C1: while a field is still null, get_next_question() is the canned question
\* of the first null field in the order name, car_reg, car_model, mileage,
\* warranty, issue, and get_missing_fields() lists exactly the null fields in
\* that order (checked in every state update_state calls reach, and on every
\* answer get_next_question gave)
C1_FirstMissingIsAsked ==
    NullFields(state) # {} =>
        /\ get_next_question(state) = QUESTIONS[FirstNull(state)]
        /\ Range(get_missing_fields(state)) = NullFields(state)
        /\ \A i, j \in DOMAIN get_missing_fields(state) :
              i < j => Place(get_missing_fields(state)[i])
                           < Place(get_missing_fields(state)[j])
        /\ last.op = "get_next_question" => last.question = QUESTIONS[FirstNull(state)]
C1_Witness ==
    /\ last.op = "get_next_question"
    /\ state["name"] # PyNull /\ state["car_model"] # PyNull
    /\ state["car_reg"] = PyNull /\ state["issue"] = PyNull
    /\ last.question = QUESTIONS["car_reg"]

\* C2: within a session a field that is non-null is never set back to null by
\* update_state or by a turn of process_user_message; only reset() clears it
C2_FilledStaysFilled ==
    [][last'.op # "reset" => \A f \in FieldNames : state[f] # PyNull => state'[f] # PyNull]_vars
C2_Witness ==
    /\ last.op = "process_user_message"
    /\ last.pre["mileage"] = PyInt(0)
    /\ state["mileage"] = PyInt(5000)

\* C3 (as claimed): is_complete() is true exactly when all six fields are
\* non-null, that is exactly when get_missing_fields() is empty
C3_CompleteIffNoneNull ==
    /\ is_complete(state) <=> NullFields(state) = {}
    /\ is_complete(state) <=> get_missing_fields(state) = <<>>

\* C4: after the greeting turn, each parser turn that supplies the field asked
\* gets the canned question of the next field in canonical order, and the turn
\* that supplies the sixth field gets the completion message with mode parser,
\* use_prerecorded and is_complete true
C4_ScenarioCompletesInSixTurns ==
    last.op = "process_user_message" =>
        /\ last.raised = "none"
        /\ ops = 1 => /\ last.result.mode = "greeting"
                      /\ last.result.bot_response = GREETING_MESSAGE
        /\ ops \in 2..6 => /\ last.result.mode = "parser"
                           /\ last.result.bot_response = QUESTIONS[CanonicalOrder[ops]]
                           /\ last.result.audio_filename = WavName(CanonicalOrder[ops])
                           /\ last.result.use_prerecorded
                           /\ ~last.result.is_complete
        /\ ops = 7 => /\ last.result.mode = "parser"
                      /\ last.result.bot_response = COMPLETION_MESSAGE
                      /\ last.result.use_prerecorded
                      /\ last.result.is_complete
                      /\ NullFields(state) = {}
C4_Witness ==
    /\ ops = 7
    /\ last.result.mode = "parser"
    /\ last.result.bot_response = COMPLETION_MESSAGE
    /\ state["warranty"] = PyBool(FALSE)

C6_QuestionAfterUpdate ==
    Returned /\ last.result.mode = "parser" =>
        \A f \in FieldNames :
            Asks(last.result.bot_response, f) =>
                /\ last.result.state[f] = PyNull
                /\ f \notin Range(last.result.updated_fields)
C6_Witness ==
    /\ Returned /\ last.result.mode = "parser"
    /\ Asks(last.result.bot_response, "car_reg")
    /\ "name" \in Range(last.result.updated_fields)
    /\ last.pre["name"] = PyNull

\* C7 (as claimed): a pre-recorded response never asks for a field that is
\* filled in the booking state at the time of the response
C7_NeverReAsksFilledField ==
    Returned /\ last.result.use_prerecorded =>
        \A f \in FieldNames : Asks(last.result.bot_response, f) => state[f] = PyNull

\* C8: a turn classified as a greeting returns the canned greeting with mode
\* greeting, calls neither generation function and leaves the booking state
\* as it was
C8_GreetingFastPath ==
    last.op = "process_user_message" /\ is_greeting(last.user_message) =>
        /\ last.raised = "none"
        /\ last.result.mode = "greeting"
        /\ last.result.bot_response = GREETING_MESSAGE
        /\ last.calls = <<>>
        /\ state = last.pre
C8_Witness ==
    /\ last.op = "process_user_message" /\ is_greeting(last.user_message)
    /\ last.result.mode = "greeting"
    /\ last.pre["car_reg"] # PyNull

C10_MalformedValueIsAbsorbed ==
    last.op = "process_user_message" /\ last.parser = "success" =>
        /\ last.raised = "none"
        /\ \A f \in FieldNames :
              Supplied(f, DictGet(last.pd, f)) =>
                  IF Normalized(f, DictGet(last.pd, f)).ok
                  THEN state[f] = Normalized(f, DictGet(last.pd, f)).v
                  ELSE state[f] = last.pre[f]

\* The calls of a turn made for the given purpose
CallsFor(purpose) == {i \in DOMAIN last.calls : last.calls[i].purpose = purpose}
\* A turn that was not a greeting, did not take the parser path, and whose
\* fallback generation step produced its result (or the streaming flag)
FallbackProduced ==
    /\ last.op = "process_user_message"
    /\ ~is_greeting(last.user_message)
    /\ last.parser # "success"
    /\ last.raised # "fallback_llm"

\* C11 (as claimed): once the fallback generation step has produced its result,
\* the re-scan of the utterance does not raise and the turn returns a result
\* with mode fallback_llm
C11_BackfillNeverRaises ==
    FallbackProduced =>
        /\ last.raised = "none"
        /\ last.result.mode = "fallback_llm"

\* C12 (as claimed): a turn makes at most one parser call and at most one
\* fallback call, the fallback call comes after the parser call and only when
\* the parser attempt failed or was skipped, and a turn whose parser attempt
\* succeeded makes no fallback call and returns a result with mode parser
C12_SequentialAlternatives ==
    last.op = "process_user_message" =>
        /\ Cardinality(CallsFor("parser")) <= 1
        /\ Cardinality(CallsFor("fallback")) <= 1
        /\ \A i \in CallsFor("parser"), j \in CallsFor("fallback") : i < j
        /\ CallsFor("fallback") # {} => last.parser # "success"
        /\ last.parser = "success" =>
              /\ CallsFor("fallback") = {}
              /\ last.raised = "none"
              /\ last.result.mode = "parser"

HasCanonicalValue(d) ==
    d.t = "dict" /\ \E k \in d.keys \cap FieldNames : d.val[k] # PyNull

\* C14 (as claimed): a decoded parser map is a parse success exactly when one
\* of the six canonical keys holds a non-null value
C14_AcceptedIffCanonicalValue ==
    /\ last.op = "process_user_message" /\ last.parser = "success" =>
          HasCanonicalValue(last.pd)
    /\ \A p \in ParserReplies :
          p.kind = "text" /\ parse_llm_json_response(p).ok
              /\ HasCanonicalValue(parse_llm_json_response(p).v) =>
              _try_parser(conversation_history, p).success

\* The fields whose stored value a call changed
ChangedFields == {f \in FieldNames : state[f] # last.pre[f]}

\* C15 (as claimed): the updated_fields of update_state are exactly the fields
\* whose stored value the call changed
C15_UpdatedFieldsAreTheChanged ==
    last.op = "update_state" /\ last.raised = "none" =>
        Range(last.updates) = ChangedFields

\* C16: after an update_state call that succeeded, a second call with the same
\* map succeeds and leaves the state, get_missing_fields() and is_complete() as
\* the first call left them
C16_UpdateIsIdempotent ==
    last.op = "update_state" /\ last.raised = "none" =>
        /\ ~update_state(state, last.pd).raised
        /\ update_state(state, last.pd).state = state
        /\ get_missing_fields(update_state(state, last.pd).state)
               = get_missing_fields(state)
        /\ is_complete(update_state(state, last.pd).state) = is_complete(state)
C16_Witness ==
    /\ last.op = "update_state" /\ last.raised = "none"
    /\ DictGet(last.pd, "car_reg") = V_Reg
    /\ DictGet(last.pd, "mileage") = PyInt(5000)
    /\ last.pre["car_reg"] # PyNull /\ last.pre["car_reg"] # state["car_reg"]
    /\ last.pre["mileage"] = PyInt(5000)

\* C17: update_state changes a field only if the map holds a non-null value
\* under its key (also in a call that raises half-way), and a map whose keys
\* are all outside the six canonical names raises nothing and changes nothing
C17_OnlySuppliedFieldsChange ==
    last.op = "update_state" =>
        /\ \A f \in ChangedFields : f \in last.pd.keys /\ DictGet(last.pd, f) # PyNull
        /\ last.pd.keys \cap FieldNames = {} =>
              last.raised = "none" /\ state = last.pre /\ last.updates = <<>>
C17_Witness ==
    /\ last.op = "update_state"
    /\ last.pd = Obj({<<"notes", V_Issue>>})
    /\ state = last.pre
    /\ state["name"] # PyNull /\ state["issue"] = PyNull

\* C18 (as claimed): update_state stores a warranty of false and a mileage of
\* 0 and get_missing_fields() does not list them; a state with six non-null
\* fields and warranty false is complete; a state missing only issue is not
C18_FalseAndZeroAreFilled ==
    /\ last.op = "update_state" /\ last.raised = "none"
           /\ DictGet(last.pd, "warranty") = PyBool(FALSE) =>
          /\ state["warranty"] = PyBool(FALSE)
          /\ "warranty" \notin Range(get_missing_fields(state))
    /\ last.op = "update_state" /\ last.raised = "none"
           /\ DictGet(last.pd, "mileage") = PyInt(0) =>
          /\ state["mileage"] = PyInt(0)
          /\ "mileage" \notin Range(get_missing_fields(state))
    /\ NullFields(state) = {} /\ state["warranty"] = PyBool(FALSE) => is_complete(state)
    /\ NullFields(state) = {"issue"} => ~is_complete(state)

\* The roles of the history alternate user, assistant from its first entry
Alternates(history) ==
    \A i \in DOMAIN history :
        history[i].role = IF i % 2 = 1 THEN "user" ELSE "assistant"

C20_LatencyHasTotalAndPhases ==
    Returned =>
        /\ "total" \in last.result.latency_breakdown
        /\ last.result.mode = "greeting" => "greeting" \in last.result.latency_breakdown
        /\ last.parser # "skipped" => "parser" \in last.result.latency_breakdown
        /\ last.result.mode = "fallback_llm" =>
              "fallback_llm" \in last.result.latency_breakdown

\* A turn that was no greeting and did not take the parser path
OnFallbackPath ==
    /\ last.op = "process_user_message"
    /\ ~is_greeting(last.user_message)
    /\ last.parser # "success"
\* The texts the synchronous generation function returns
FallbackTexts == {f.text : f \in {g \in FallbackReplies : g.kind = "text"}}

\* C21 (as claimed): a fallback turn given a streaming function makes no
\* generation call for the reply and returns streaming true with a null
\* bot_response; one given none calls the synchronous function once and, when
\* that call returns, returns its text with streaming false
C21_StreamsOrCallsOnce ==
    OnFallbackPath /\ last.raised # "fallback_llm" =>
        /\ Returned
        /\ IF last.stream_fn
           THEN /\ CallsFor("fallback") = {}
                /\ last.result.streaming = PyBool(TRUE)
                /\ last.result.bot_response = PyNull
           ELSE /\ Cardinality(CallsFor("fallback")) = 1
                /\ last.result.streaming = PyBool(FALSE)
                /\ last.result.bot_response \in FallbackTexts

\* C22: a fallback turn, returned or not, leaves car_reg, car_model, mileage
\* and issue as they were, and changes name or warranty only from null
C22_BackfillOnlyFillsNameAndWarranty ==
    OnFallbackPath =>
        /\ \A f \in {"car_reg", "car_model", "mileage", "issue"} : state[f] = last.pre[f]
        /\ \A f \in {"name", "warranty"} : state[f] # last.pre[f] => last.pre[f] = PyNull
C22_Witness ==
    /\ OnFallbackPath /\ Returned
    /\ last.user_message = U_Warranty
    /\ last.pre["warranty"] = PyBool(TRUE) /\ state["warranty"] = PyBool(TRUE)
    /\ last.pre["name"] = V_Name /\ state = last.pre

\* The JSON object a text holds as raw JSON, inside a pair of fences, or as
\* the span from its first "{" to its last "}"
IsObject(r) == r.ok /\ r.v.t = "dict"
BraceSegs(segs) == {p \in DOMAIN segs : HasBrace(segs[p])}
FencedBodies(segs) ==
    UNION {{SubSeq(segs, i + 1, j - 1) :
               j \in {q \in DOMAIN segs : q > i /\ segs[q].k = "fence"}} :
           i \in {q \in DOMAIN segs : segs[q].k \in {"fence", "fence_json"}}}
FencedObjects(segs) ==
    {json_loads(body).v : body \in {b \in FencedBodies(segs) : IsObject(json_loads(b))}}
SpanObjects(segs) ==
    IF BraceSegs(segs) = {} THEN {}
    ELSE {r.v : r \in {x \in {json_loads(SubSeq(segs,
                                   CHOOSE p \in BraceSegs(segs) :
                                       \A q \in BraceSegs(segs) : p <= q,
                                   CHOOSE p \in BraceSegs(segs) :
                                       \A q \in BraceSegs(segs) : q <= p))} :
                         IsObject(x)}}
RecoverableObjects(segs) ==
    IF IsObject(json_loads(segs)) THEN {json_loads(segs).v}
    ELSE IF FencedObjects(segs) # {} THEN FencedObjects(segs)
    ELSE SpanObjects(segs)

\* C27 (as claimed): for the text a parser call returned, parse_llm_json_response
\* gives a JSON object whenever the text holds one as raw JSON, in a code fence
\* or as its brace span (in that order), and fails to decode only when it
\* holds none
C27_RecoversAnyRecoverableObject ==
    last.op = "process_user_message" /\ last.parser_reply.kind = "text" =>
        /\ RecoverableObjects(last.parser_reply.segs) # {} =>
              /\ parse_llm_json_response(last.parser_reply).ok
              /\ parse_llm_json_response(last.parser_reply).v
                     \in RecoverableObjects(last.parser_reply.segs)
        /\ last.parser = "decode_raised" => RecoverableObjects(last.parser_reply.segs) = {}

\* C28 (as claimed): the max_tokens of a turn's parser call is smaller than the
\* max_tokens of the fallback generation call
C28_ParserBudgetIsSmaller ==
    last.op = "process_user_message" =>
        \A i \in CallsFor("parser") : last.calls[i].max_tokens < FallbackCall.max_tokens

\* What is left of a mileage text for float(): lowered, without "miles", commas
\* and surrounding whitespace
Residual(text) == Strip(RemoveChar(RemoveSub(Lower(text), <<"m","i","l","e","s">>), ","))
\* The number n of a residual "<n>k", and of one without a k
NumberOf(residual) ==
    IF Contains(residual, <<"k">>) THEN ParseFloat(RemoveChar(residual, "k"))
    ELSE ParseFloat(residual)
\* update_state was called with a mileage alone
MileageAlone ==
    /\ last.op = "update_state"
    /\ last.pd.keys = {"mileage"}
    /\ last.pd.val["mileage"] # PyNull
V_120k == PyStr(<<"1","2","0","k">>)
V_45000Miles == PyStr(<<"4","5",",","0","0","0"," ","m","i","l","e","s">>)
V_32p3k == PyStr(<<"3","2",".","3","k">>)
\* What the mileage rules promise of an input v: the stored value, or an error
MileageAsPromised(v) ==
    /\ v.t = "int" => last.raised = "none" /\ state["mileage"] = v
    /\ v = V_120k => last.raised = "none" /\ state["mileage"] = PyInt(120000)
    /\ v = V_45000Miles => last.raised = "none" /\ state["mileage"] = PyInt(45000)
    /\ (v.t = "str" /\ Contains(Residual(v.s), <<"k">>) /\ NumberOf(Residual(v.s)).ok) =>
          /\ last.raised = "none"
          /\ state["mileage"].t = "int"
          /\ state["mileage"].n * NumberOf(Residual(v.s)).den
                 = NumberOf(Residual(v.s)).num * 1000
    /\ (v.t = "str" /\ ~NumberOf(Residual(v.s)).ok) =>
          last.raised = "update_state" /\ state = last.pre

\* C29 (as claimed): _normalize_mileage returns an int unchanged, maps "<n>k" to
\* n * 1000, strips commas and "miles" ("120k" gives 120000, "45,000 miles"
\* gives 45000, 5000 gives 5000), raises when the residual text is no number,
\* and every stored mileage is an integer
C29_MileageNormalization ==
    /\ state["mileage"].t \in {"null", "int"}
    /\ MileageAlone => MileageAsPromised(last.pd.val["mileage"])

\* C30: _normalize_warranty returns a bool unchanged, maps the affirmative
\* tokens to true and the negative tokens to false in any letter case, and
\* every other string to true when non-empty, false when empty
C30_WarrantyNormalization ==
    (/\ last.op = "update_state"
     /\ last.pd.keys = {"warranty"}
     /\ last.pd.val["warranty"].t \in {"bool", "str"}) =>
        /\ last.raised = "none"
        /\ last.pd.val["warranty"].t = "bool" => state["warranty"] = last.pd.val["warranty"]
        /\ (/\ last.pd.val["warranty"].t = "str"
            /\ Lower(last.pd.val["warranty"].s) \in WarrantyYes) =>
              state["warranty"] = PyBool(TRUE)
        /\ (/\ last.pd.val["warranty"].t = "str"
            /\ Lower(last.pd.val["warranty"].s) \in WarrantyNo) =>
              state["warranty"] = PyBool(FALSE)
        /\ (/\ last.pd.val["warranty"].t = "str"
            /\ Lower(last.pd.val["warranty"].s) \notin WarrantyYes \cup WarrantyNo) =>
              state["warranty"] = PyBool(last.pd.val["warranty"].s # <<>>)
C30_Witness ==
    /\ last.op = "update_state"
    /\ last.pd = Obj({<<"warranty", PyStr(<<"N","O">>)>>})
    /\ last.pre["warranty"] = PyBool(TRUE)
    /\ state["warranty"] = PyBool(FALSE)

\* The session objects still in use: created and not removed by delete_session
LiveSessions == {o \in DOMAIN heap : ~heap[o].evicted}

\* C23 (as claimed): under any interleaving of get_or_create_session and
\* delete_session by concurrent handlers, every caller obtains a session (no
\* call raises), a session id has at most one session in use, which is the one
\* the store holds (none is lost or duplicated), and no session holds history
\* of another id
C23_OneSessionPerId ==
    /\ \A t \in Threads : ~threads[t].raised
    /\ \A o \in LiveSessions : sessions[heap[o].session_id] = o
    /\ \A o \in DOMAIN heap :
          \A i \in DOMAIN heap[o].conversation_history :
              heap[o].conversation_history[i].sid = heap[o].session_id

\* The transcription of the last audio_data event came back empty or blank
BlankTranscription == ReachesLlm(request) /\ Strip(request.text.s) = <<>>

\* C24 (as claimed): on an empty or blank transcription the run makes no call
\* of get_llm_response and emits, in place of a bot_response, an event of its
\* own that is neither of the two error events
C24_BlankShortCircuits ==
    BlankTranscription =>
        /\ llm_calls = <<>>
        /\ \A i \in DOMAIN emitted : emitted[i].event # "bot_response"
        /\ \E i \in DOMAIN emitted : emitted[i] \notin {NoAudio, TranscriptionFailed}

\* C25: when the write of the recording metadata fails, the run still emits
\* the bot_response of the turn, with the transcription, the generated text
\* and success = true
C25_SaveFailureDoesNotBlock ==
    (ReachesLlm(request) /\ request.fault = "save") =>
        /\ Len(emitted) = 1
        /\ emitted[1].event = "bot_response"
        /\ emitted[1].payload.success
        /\ emitted[1].payload.user_text = request.text
        /\ emitted[1].payload.bot_text = llm_calls[1].result.v
        /\ emitted[1].payload.average = PyNull
C25_Witness ==
    /\ ReachesLlm(request) /\ request.fault = "save"
    /\ request.text = T_Book
    /\ emitted = <<BotResponse(T_Book, LLM_TEXT, TRUE, PyNull)>>
    /\ Len(latency_records) = 2

\* The call asked for generation that failed: the provider's API call raised,
\* or the provider is none of those the function knows
GenerationFailed(call) ==
    \/ call.outcome = "raise"
    \/ call.fn = "app" /\ call.provider \notin AppProviders
    \/ call.fn = "utils.llm" /\ call.provider \notin LlmProviders

\* C26: neither get_llm_response raises; each returns the apology when the
\* provider call failed or the provider is unknown, the generated text
\* otherwise, and the handler emits what it returned as the bot's text
C26_GetLlmResponseNeverRaises ==
    /\ \A i \in DOMAIN llm_calls :
          /\ llm_calls[i].result.ok
          /\ llm_calls[i].result.v =
                IF GenerationFailed(llm_calls[i]) THEN APOLOGY ELSE LLM_TEXT
    /\ (ReachesLlm(request) /\ request.fault = "none") =>
          /\ Len(emitted) = 1
          /\ emitted[1].event = "bot_response"
          /\ emitted[1].payload.bot_text = llm_calls[1].result.v
C26_Witness ==
    /\ ReachesLlm(request) /\ request.fault = "none"
    /\ request.outcome = "raise"
    /\ llm_calls[1].fn = "app"
    /\ emitted[1].payload.bot_text = APOLOGY

\* A registration in normal form: text without whitespace and without a
\* lowercase letter
NormalReg(v) ==
    /\ v.t = "str"
    /\ \A i \in DOMAIN v.s : v.s[i] \notin Whitespace /\ v.s[i] \notin Range(LowerChars)

\* C31 (as claimed): _normalize_car_reg returns for every text, without failing,
\* a text with no whitespace and no lowercase letter that it maps to itself,
\* and every car_reg update_state stored is such a text
C31_RegistrationIsNormalized ==
    /\ state["car_reg"] # PyNull => NormalReg(state["car_reg"])
    /\ (/\ last.op = "update_state"
        /\ last.pd.keys = {"car_reg"}
        /\ last.pd.val["car_reg"].t = "str"
        /\ Truthy(last.pd.val["car_reg"])) =>
          /\ last.raised = "none"
          /\ _normalize_car_reg(state["car_reg"]) = Ok(state["car_reg"])

\* The utterance of the last turn as the classifiers read it, and its words
Msg == Strip(Lower(last.user_message))
WordCount == Len(Split(Msg))
BeginsWithGreeting == \E g \in Greetings : StartsWith(Msg, g)
HasIndicator == \E ind \in InfoIndicators : Contains(Msg, ind)
\* The text begins with the words of the phrase: the phrase ends the text or
\* is followed by something other than a letter
LeadsWith(text, phrase) ==
    /\ StartsWith(text, phrase)
    /\ Len(text) > Len(phrase) => ~IsLetter(text[Len(phrase) + 1])
\* The turn attempted the parser
ParserTried == last.parser # "skipped"

\* C32: an utterance that begins with a greeting and has 8 or more words or
\* holds a booking-info indicator is not answered by the greeting fast path
\* and is routed by completeness and should_use_parser; one of 7 or fewer
\* words and no indicator is answered by the fast path, with no LLM call
C32_GreetingFastPathLimits ==
    (last.op = "process_user_message" /\ BeginsWithGreeting) =>
        IF WordCount >= 8 \/ HasIndicator
        THEN /\ last.result.mode # "greeting"
             /\ ParserTried <=>
                   (~is_complete(last.pre) /\ should_use_parser(last.user_message))
        ELSE /\ last.result.mode = "greeting"
             /\ last.calls = <<>>
C32_Witness ==
    /\ last.op = "process_user_message"
    /\ last.user_message = U_Hi8
    /\ last.result.mode = "parser"
    /\ state["name"] # PyNull

\* The interrogative words and phrases: the question starters as words
Interrogatives == {Strip(q) : q \in QuestionStarters}
StartsInterrogative == \E q \in Interrogatives : LeadsWith(Msg, q)

\* C33 (as claimed): for an utterance that is no greeting, on an incomplete
\* booking, the parser is skipped exactly when the utterance starts with an
\* interrogative word or phrase or has more than 30 words
C33_ParserSkippedIffQuestionOrLong ==
    (/\ last.op = "process_user_message"
     /\ ~is_greeting(last.user_message)
     /\ ~is_complete(last.pre)) =>
        (~ParserTried <=> (StartsInterrogative \/ WordCount > 30))

\* C40 (as claimed): a turn is answered by the greeting fast path only if the
\* utterance begins with the word or words of a greeting token
C40_GreetingOnlyForGreetingWords ==
    (last.op = "process_user_message" /\ last.result.mode = "greeting") =>
        \E g \in Greetings : LeadsWith(Msg, g)

\* C34 (as claimed): a turn that takes the booking from incomplete to complete
\* answers with the completion message
C34_CompletionIsAnnounced ==
    (Returned /\ ~is_complete(last.pre) /\ is_complete(state)) =>
        last.result.bot_response = COMPLETION_MESSAGE

\* C35 (as claimed): a turn whose exception reaches the caller leaves the
\* booking state and the conversation history as they were before the call
C35_TurnIsAtomicOnError ==
    [][(last'.op = "process_user_message" /\ ops' = ops + 1 /\ last'.raised # "none") =>
          (state' = state /\ conversation_history' = conversation_history)]_vars

\* C36 (as claimed): a result of mode 'parser' carries a canned question or the
\* completion message, use_prerecorded true and an audio file name
C36_ParserResultIsCanned ==
    (Returned /\ last.result.mode = "parser") =>
        /\ \/ last.result.bot_response = COMPLETION_MESSAGE
           \/ \E f \in FieldNames : last.result.bot_response = QUESTIONS[f]
        /\ last.result.use_prerecorded
        /\ last.result.audio_filename # PyNull

\* C37 (as claimed): a result of mode 'parser' has a non-empty updated_fields
C37_ParserSuccessStoresSomething ==
    (Returned /\ last.result.mode = "parser") => last.result.updated_fields # <<>>

\* C38 (as claimed): the is_complete flag of every result is the completeness
\* of the state the result carries
C38_FlagMatchesState ==
    Returned => (last.result.is_complete <=> is_complete(last.result.state))

\* C39 (as claimed): the fields on which the state after a turn differs from
\* the state before it are listed in the result's updated_fields
C39_ChangesAreListed ==
    Returned => ChangedFields \subseteq Range(last.result.updated_fields)

====
